---- MODULE Spec2Model ----
(***************************************************************************)
(* addr-alias: alias, ASCII identicon and entropy score of a hex address.  *)
(* A Python str is a sequence of one-character strings.                    *)
(***************************************************************************)
EXTENDS Integers, Sequences, FiniteSets, TLC

VARIABLES
    sha,                            \* the SHA-256 values computed so far: str -> digest
    n_pc, n_raw, n_once, n_twice,   \* hex_normalize: argument, result, result of the result
    a_pc, a_hexstr, a_seed, a_out,  \* make_pronounceable_alias: arguments and result
    i_pc, i_hexstr, i_size,         \* ascii_identicon: position, arguments,
    i_bits, i_grid, i_bit_idx,      \*   locals bits, grid, bit_idx,
    i_r, i_c, i_out,                \*   loop indices r and c, result
    e_pc, e_hexstr, e_out,          \* entropy_score_from_hex: argument, result in tenths
    m_run,                          \* main: the invocation under way or just ended
    m_first                         \* main: the invocation that ended before it

norm_vars == <<n_pc, n_raw, n_once, n_twice>>
alias_vars == <<a_pc, a_hexstr, a_seed, a_out>>
ident_vars == <<i_pc, i_hexstr, i_size, i_bits, i_grid, i_bit_idx, i_r, i_c, i_out>>
entropy_vars == <<e_pc, e_hexstr, e_out>>
main_vars == <<m_run, m_first>>
vars == <<sha, norm_vars, alias_vars, ident_vars, entropy_vars, main_vars>>

(***************************************************************************)
(* Characters and str methods.                                             *)
(***************************************************************************)
UPPER == <<"A","B","C","D","E","F","G","H","I","J","K","L","M",
           "N","O","P","Q","R","S","T","U","V","W","X","Y","Z">>
LOWER == <<"a","b","c","d","e","f","g","h","i","j","k","l","m",
           "n","o","p","q","r","s","t","u","v","w","x","y","z">>

\* the characters str.strip() removes, among those of the model's alphabets
Whitespace == {" ", "\t", "\n"}

\* str.lower() on one character
LowerChar(ch) ==
    IF \E i \in 1..Len(UPPER) : UPPER[i] = ch
    THEN LOWER[CHOOSE i \in 1..Len(UPPER) : UPPER[i] = ch]
    ELSE ch

\* str.upper() on one character
UpperChar(ch) ==
    IF \E i \in 1..Len(LOWER) : LOWER[i] = ch
    THEN UPPER[CHOOSE i \in 1..Len(LOWER) : LOWER[i] = ch]
    ELSE ch

\* str.lower()
Lower(s) == [i \in 1..Len(s) |-> LowerChar(s[i])]

RECURSIVE LStrip(_)
LStrip(s) == IF s # <<>> /\ Head(s) \in Whitespace THEN LStrip(Tail(s)) ELSE s

RECURSIVE RStrip(_)
RStrip(s) ==
    IF s # <<>> /\ s[Len(s)] \in Whitespace
    THEN RStrip(SubSeq(s, 1, Len(s) - 1))
    ELSE s

\* str.strip()
Strip(s) == RStrip(LStrip(s))

\* str.startswith(p)
StartsWith(s, p) == Len(s) >= Len(p) /\ SubSeq(s, 1, Len(p)) = p

\* s[k:] (k >= 0)
DropFirst(s, k) == SubSeq(s, k + 1, Len(s))

\* s[:k] (k >= 0)
TakeFirst(s, k) == SubSeq(s, 1, IF k < Len(s) THEN k ELSE Len(s))

(***************************************************************************)
(* hex_normalize                                                           *)
(***************************************************************************)
\* a variant that knows only the lowercase prefix
hex_normalize_lower_prefix_only(addr) ==
    LET a == Strip(addr)
    IN  Lower(IF StartsWith(a, <<"0","x">>) THEN DropFirst(a, 2) ELSE a)

hex_normalize(addr) ==
    LET a == Strip(addr)
        b == IF StartsWith(a, <<"0","x">>) \/ StartsWith(a, <<"0","X">>)
             THEN DropFirst(a, 2)
             ELSE a
    IN  Lower(b)

(***************************************************************************)
(* sha256_hex.  SHA-256 is a fixed function whose values the model does    *)
(* not compute: sha holds the value of every string hashed so far, a       *)
(* string hashed again gets the value it got before, and a string hashed   *)
(* for the first time may get any digest.  A digest is a string of 64      *)
(* lowercase hex digits.                                                   *)
(***************************************************************************)
HEXDIGITS == <<"0","1","2","3","4","5","6","7","8","9","a","b","c","d","e","f">>

\* hexdigest() of a sequence of bytes
HexDigest(bytes) ==
    [k \in 1..(2 * Len(bytes)) |->
        LET b == bytes[(k + 1) \div 2]
        IN  HEXDIGITS[(IF k % 2 = 1 THEN b \div 16 ELSE b % 16) + 1]]

\* the digests sha256_hex(s) may return, given the values computed so far
sha256_hex(table, s, digests) ==
    IF s \in DOMAIN table THEN {table[s]} ELSE digests

\* the values computed so far, once sha256_hex(s) has returned h
Hashed(table, s, h) ==
    [x \in DOMAIN table \cup {s} |-> IF x = s THEN h ELSE table[x]]

(***************************************************************************)
(* make_pronounceable_alias                                                *)
(***************************************************************************)
VOWELS == <<"a","e","i","o","u">>
CONSONANTS == <<"b","c","d","f","g","h","j","k","l","m","n",
                "p","q","r","s","t","v","w","x","y","z">>

\* int(c, 16) of one hex digit of a digest
HexVal(ch) == (CHOOSE k \in 1..16 : HEXDIGITS[k] = ch) - 1

\* int(h[i*2:(i*2)+2], 16)
ByteAt(h, i) == 16 * HexVal(h[2 * i + 1]) + HexVal(h[2 * i + 2])

\* str.capitalize()
Capitalize(s) ==
    IF s = <<>> THEN s ELSE <<UpperChar(s[1])>> \o Lower(Tail(s))

\* c + v + c2 of one byte
Syllable(byte) ==
    <<CONSONANTS[(byte % Len(CONSONANTS)) + 1],
      VOWELS[((byte \div 8) % Len(VOWELS)) + 1],
      CONSONANTS[((byte \div 32) % Len(CONSONANTS)) + 1]>>

\* "".join(out) after i rounds of the loop
RECURSIVE JoinedSyllables(_, _)
JoinedSyllables(h, i) ==
    IF i = 0 THEN <<>>
    ELSE JoinedSyllables(h, i - 1) \o Syllable(ByteAt(h, i - 1))

\* the string hashed for the alias
AliasInput(hexstr, seed) == hexstr \o <<"|">> \o seed

\* variants: the joined syllables returned as they are; the second
\* consonant taken from the high nibble
AliasOfDigest_untrimmed(h) == JoinedSyllables(h, 5)

AliasOfDigest_high_nibble(h) ==
    LET syl(b) == <<CONSONANTS[(b % 21) + 1], VOWELS[((b \div 8) % 5) + 1],
                    CONSONANTS[((b \div 16) % 21) + 1]>>
        all == syl(ByteAt(h, 0)) \o syl(ByteAt(h, 1)) \o syl(ByteAt(h, 2))
               \o syl(ByteAt(h, 3)) \o syl(ByteAt(h, 4))
    IN  Capitalize(TakeFirst(all, 12))

\* make_pronounceable_alias, given h = sha256_hex(hexstr + "|" + seed)
AliasOfDigest(h) == Capitalize(TakeFirst(JoinedSyllables(h, 5), 12))

(***************************************************************************)
(* ascii_identicon.  Lists are 1-based here: grid[r][c] of the source is   *)
(* grid[r + 1][c + 1].  FILLED stands for the block glyph U+2588.          *)
(***************************************************************************)
FILLED == "#"
EMPTY == " "

\* the 4 binary digits of one hex digit, most significant first
NibbleBits(ch) ==
    LET v == HexVal(ch)
    IN  <<IF (v \div 8) % 2 = 1 THEN "1" ELSE "0",
          IF (v \div 4) % 2 = 1 THEN "1" ELSE "0",
          IF (v \div 2) % 2 = 1 THEN "1" ELSE "0",
          IF v % 2 = 1 THEN "1" ELSE "0">>

\* a variant with the digits of each hex digit least significant first
Bits_lsb_first(h) ==
    [k \in 1..(4 * Len(h)) |-> NibbleBits(h[(k + 3) \div 4])[4 - ((k - 1) % 4)]]

\* bin(int(h, 16))[2:].zfill(256): the binary digits of the number h
\* writes, most significant first, with the leading zeros put back; it is
\* the digits of each hex digit of h in turn
Bits(h) ==
    [k \in 1..(4 * Len(h)) |-> NibbleBits(h[(k + 3) \div 4])[((k - 1) % 4) + 1]]

\* [[" " for _ in range(size)] for _ in range(size)]
BlankGrid(size) == [r \in 1..size |-> [c \in 1..size |-> EMPTY]]

\* half = (size + 1) // 2
Half(size) == (size + 1) \div 2

\* if bit_idx >= len(bits): bit_idx = 0
WrapCursor(bit_idx, len_bits) == IF bit_idx >= len_bits THEN 0 ELSE bit_idx

\* a variant that sets the left cell and forgets its mirror
FillCell_no_mirror(grid, bits, bit_idx, r, c, size) ==
    [grid EXCEPT ![r + 1][c + 1] = IF bits[bit_idx + 1] = "1" THEN FILLED ELSE EMPTY]

\* grid[r][c] = glyph of bits[bit_idx]; grid[r][size - 1 - c] = grid[r][c]
\* (the mirror cell gets the glyph just written to the left cell)
FillCell(grid, bits, bit_idx, r, c, size) ==
    LET glyph == IF bits[bit_idx + 1] = "1" THEN FILLED ELSE EMPTY
    IN  [grid EXCEPT ![r + 1][c + 1] = glyph,
                     ![r + 1][(size - 1 - c) + 1] = glyph]

\* the two nested loops from their visit k on (r = k // half, c = k % half)
RECURSIVE FillFrom(_, _, _, _, _, _)
FillFrom(grid, bits, len_bits, bit_idx, k, size) ==
    IF k >= size * Half(size) THEN grid
    ELSE LET idx == WrapCursor(bit_idx, len_bits)
         IN  FillFrom(FillCell(grid, bits, idx, k \div Half(size), k % Half(size), size),
                      bits, len_bits, idx + 1, k + 1, size)

\* ascii_identicon, given h = sha256_hex(hexstr); "".join(row) of a row of
\* one-character strings is the row
IdenticonOfDigest(h, size) ==
    FillFrom(BlankGrid(size), Bits(h), Len(Bits(h)), 0, 0, size)

(***************************************************************************)
(* entropy_score_from_hex.  The floats of the source are fixed-point       *)
(* numbers here: entropies in millionths of a bit, the normalized score in *)
(* millionths of a point, the returned score (one decimal) in tenths.      *)
(***************************************************************************)
MICRO == 10 ^ 6

\* math.log(n, 2) for n = 1..64, in millionths
LOG2_MICRO ==
    <<0, 1000000, 1584963, 2000000, 2321928, 2584963, 2807355, 3000000,
      3169925, 3321928, 3459432, 3584963, 3700440, 3807355, 3906891, 4000000,
      4087463, 4169925, 4247928, 4321928, 4392317, 4459432, 4523562, 4584963,
      4643856, 4700440, 4754888, 4807355, 4857981, 4906891, 4954196, 5000000,
      5044394, 5087463, 5129283, 5169925, 5209453, 5247928, 5285402, 5321928,
      5357552, 5392317, 5426265, 5459432, 5491853, 5523562, 5554589, 5584963,
      5614710, 5643856, 5672425, 5700440, 5727920, 5754888, 5781360, 5807355,
      5832890, 5857981, 5882643, 5906891, 5930737, 5954196, 5977280, 6000000>>

\* Counter(s)
Counter(s) ==
    [ch \in {s[i] : i \in 1..Len(s)} |-> Cardinality({i \in 1..Len(s) : s[i] = ch})]

RECURSIVE SumOver(_, _)
SumOver(f, keys) ==
    IF keys = {} THEN 0
    ELSE LET k == CHOOSE x \in keys : TRUE
         IN  f[k] + SumOver(f, keys \ {k})

\* total = sum(cnt.values()) if cnt else 1
Total(cnt) == IF DOMAIN cnt # {} THEN SumOver(cnt, DOMAIN cnt) ELSE 1

\* ent after the loop: the sum of -p * log2(p), p = v / total, where
\* -log2(v / total) = log2(total) - log2(v)
Entropy(cnt) ==
    LET total == Total(cnt)
        term  == [ch \in DOMAIN cnt |-> cnt[ch] * (LOG2_MICRO[total] - LOG2_MICRO[cnt[ch]])]
    IN  SumOver(term, DOMAIN cnt) \div total

\* round(x, 1) of x in millionths, in tenths (ties to the even tenth)
RoundTenths(x) ==
    LET q == (x * 10) \div MICRO
        r == (x * 10) % MICRO
    IN  IF 2 * r > MICRO \/ (2 * r = MICRO /\ q % 2 = 1) THEN q + 1 ELSE q

\* a variant without the min(100.0, ...)
Normalized_unclamped(ent) == (ent * 100) \div 4

\* normalized = min(100.0, (ent / 4.0) * 100.0)
Normalized(ent) ==
    IF (ent * 100) \div 4 > 100 * MICRO THEN 100 * MICRO ELSE (ent * 100) \div 4

entropy_score_from_hex(hexstr) == RoundTenths(Normalized(Entropy(Counter(Lower(hexstr)))))

(***************************************************************************)
(* main.  args.address is [present, value]: absent is Python's None.       *)
(***************************************************************************)
IdenticonSize == 7

ERROR_MESSAGE == "Error: address required (positional or from stdin)."
WARNING_MESSAGE ==
    "Warning: address contains non-hex characters; proceeding with hashing anyway."

\* not addr, for args.address
Falsy(address) == ~address.present \/ address.value = <<>>

\* a variant that keeps what stdin holds as it is
StdinAddress_unstripped(content) == content

\* sys.stdin.read().strip()
StdinAddress(content) == Strip(content)

\* any(c not in "0123456789abcdef" for c in hexaddr)
HasNonHex(hexaddr) == \E i \in 1..Len(hexaddr) : hexaddr[i] \notin {HEXDIGITS[k] : k \in 1..16}

\* a variant that hashes the seed into the fingerprint too
HashInputs_seeded_fingerprint(hexaddr, seed) ==
    [fingerprint |-> AliasInput(hexaddr, seed),
     alias       |-> AliasInput(hexaddr, seed),
     identicon   |-> hexaddr]

\* the strings main hashes: for the fingerprint, in make_pronounceable_alias
\* and in ascii_identicon
HashInputs(hexaddr, seed) ==
    [fingerprint |-> hexaddr,
     alias       |-> AliasInput(hexaddr, seed),
     identicon   |-> hexaddr]

\* a variant that scores the address as it was given
Report_entropy_of_input(addr, hexaddr, h_fingerprint, h_alias, h_identicon) ==
    [input           |-> addr,
     normalized      |-> hexaddr,
     fingerprint     |-> h_fingerprint,
     short_id        |-> TakeFirst(h_fingerprint, 8),
     alias           |-> AliasOfDigest(h_alias),
     entropy_score   |-> entropy_score_from_hex(addr),
     identicon_lines |-> IdenticonOfDigest(h_identicon, IdenticonSize)]

\* report, given the three digests
Report(addr, hexaddr, h_fingerprint, h_alias, h_identicon) ==
    [input           |-> addr,
     normalized      |-> hexaddr,
     fingerprint     |-> h_fingerprint,
     short_id        |-> TakeFirst(h_fingerprint, 8),
     alias           |-> AliasOfDigest(h_alias),
     entropy_score   |-> entropy_score_from_hex(hexaddr),
     identicon_lines |-> IdenticonOfDigest(h_identicon, IdenticonSize)]

\* what is printed: the report as JSON, or the text lines
Printed(format, report) ==
    IF format = "json"
    THEN <<"json", report>>
    ELSE <<"text", report.input, report.short_id, report.alias, report.entropy_score,
           report.identicon_lines, report.fingerprint>>

(***************************************************************************)
(* Bounded inputs                                                          *)
(***************************************************************************)
RECURSIVE StringsUpTo(_, _)
StringsUpTo(alphabet, n) ==
    IF n = 0 THEN {<<>>}
    ELSE LET shorter == StringsUpTo(alphabet, n - 1)
         IN  shorter \cup {Append(s, ch) : s \in shorter, ch \in alphabet}

MaxRawLen == 5
NormAlphabet == {"0", "x", "X", "a", "A", "g", " "}
NormInputs == StringsUpTo(NormAlphabet, MaxRawLen)

\* Sample digests: bytes 0..3 run from b in steps of 85, bytes 4..31 from t
\* in steps of 51, so that every byte value occurs at each of the first
\* four places and digests that differ only from byte 4 on exist.
SampleDigest(b, t) ==
    HexDigest([i \in 1..32 |-> IF i <= 4 THEN (b + (i - 1) * 85) % 256
                                         ELSE (t + (i - 5) * 51) % 256])

MaxTail == 1
AliasDigests == {SampleDigest(b, t) : b \in 0..255, t \in 0..MaxTail}
AliasAddresses == {<<>>, <<"a","b">>, <<"z","!">>}
Seeds == {<<>>, <<"x">>}

\* Strings for the entropy score: the first m of 20 characters, each
\* repeated k times, followed by any short string.
EntropyAlphabet == HEXDIGITS \o <<"g","h","i","j">>
MaxDistinct == 17
MaxRepeat == 2
MaxShortLen == 3
Uniform(m, k) == [i \in 1..(m * k) |-> EntropyAlphabet[((i - 1) \div k) + 1]]
EntropyInputs ==
    {Uniform(m, k) \o t : m \in 0..MaxDistinct, k \in 1..MaxRepeat,
                          t \in StringsUpTo({"a", "A", "0", "g"}, MaxShortLen)}

MaxSize == 23

Absent == [present |-> FALSE, value |-> <<>>]
Given(text) == [present |-> TRUE, value |-> text]
MainAddresses ==
    {Absent, Given(<<>>), Given(<<" ">>),
     Given(<<"0","x","A","B","1","2">>), Given(<<" ","a","b","1","2"," ">>),
     Given(<<"0","X","g","1">>)}
MainStdin == {<<>>, <<" ","\n">>, <<"0","x","A","B","1","2","\n">>}
MainDigests == {SampleDigest(0, 0), SampleDigest(165, 1)}
Formats == {"text", "json"}
IdenticonDigests == {SampleDigest(b, t) : b \in {0, 165}, t \in 0..MaxTail}
IdenticonAddresses == {<<>>, <<"a","b">>}

(***************************************************************************)
(* hex_normalize applied to a raw string, and again to its own result.     *)
(***************************************************************************)
NormIdle == n_pc = "idle" /\ n_raw = <<>> /\ n_once = <<>> /\ n_twice = <<>>
AliasIdle == a_pc = "idle" /\ a_hexstr = <<>> /\ a_seed = <<>> /\ a_out = <<>>

IdentIdle ==
    /\ i_pc = "idle" /\ i_hexstr = <<>> /\ i_size = 0 /\ i_bits = <<>> /\ i_grid = <<>>
    /\ i_bit_idx = 0 /\ i_r = 0 /\ i_c = 0 /\ i_out = <<>>

EntropyIdle == e_pc = "idle" /\ e_hexstr = <<>> /\ e_out = 0

Shell ==
    [pc |-> "shell", address |-> Absent, seed |-> <<>>, format |-> "text",
     stdin |-> <<>>, addr |-> <<>>, hexaddr |-> <<>>, report |-> <<>>,
     stdout |-> <<>>, stderr |-> <<>>, exit |-> -1]
MainIdle == m_run = Shell /\ m_first = Shell

NormInit ==
    /\ n_pc = "raw"
    /\ n_raw \in NormInputs
    /\ n_once = <<>>
    /\ n_twice = <<>>
    /\ sha = <<>>
    /\ AliasIdle
    /\ IdentIdle
    /\ EntropyIdle
    /\ MainIdle

NormalizeRaw ==
    /\ n_pc = "raw"
    /\ n_once' = hex_normalize(n_raw)
    /\ n_pc' = "once"
    /\ UNCHANGED <<n_raw, n_twice, sha, alias_vars, ident_vars, entropy_vars, main_vars>>

NormalizeAgain ==
    /\ n_pc = "once"
    /\ n_twice' = hex_normalize(n_once)
    /\ n_pc' = "twice"
    /\ UNCHANGED <<n_raw, n_once, sha, alias_vars, ident_vars, entropy_vars, main_vars>>

NormNext == NormalizeRaw \/ NormalizeAgain

SpecNorm == NormInit /\ [][NormNext]_vars

(***************************************************************************)
(* make_pronounceable_alias applied to an address and a seed.              *)
(***************************************************************************)
AliasInit ==
    /\ a_pc = "args"
    /\ a_hexstr \in AliasAddresses
    /\ a_seed \in Seeds
    /\ a_out = <<>>
    /\ sha = <<>>
    /\ NormIdle
    /\ IdentIdle
    /\ EntropyIdle
    /\ MainIdle

MakeAlias ==
    /\ a_pc = "args"
    /\ \E h \in sha256_hex(sha, AliasInput(a_hexstr, a_seed), AliasDigests) :
          /\ sha' = Hashed(sha, AliasInput(a_hexstr, a_seed), h)
          /\ a_out' = AliasOfDigest(h)
    /\ a_pc' = "done"
    /\ UNCHANGED <<a_hexstr, a_seed, norm_vars, ident_vars, entropy_vars, main_vars>>

AliasNext == MakeAlias

SpecAlias == AliasInit /\ [][AliasNext]_vars

(***************************************************************************)
(* ascii_identicon applied to an address and a size, one step per line of  *)
(* the loop body: "check" is the test of bit_idx at the top of the body,   *)
(* "fill" the read of bits[bit_idx] and the two assignments, "join" the    *)
(* return.                                                                 *)
(***************************************************************************)
IdentInit ==
    /\ i_pc = "args"
    /\ i_hexstr \in IdenticonAddresses
    /\ i_size \in 0..MaxSize
    /\ i_bits = <<>> /\ i_grid = <<>> /\ i_bit_idx = 0
    /\ i_r = 0 /\ i_c = 0 /\ i_out = <<>>
    /\ sha = <<>>
    /\ NormIdle
    /\ AliasIdle
    /\ EntropyIdle
    /\ MainIdle

IdentStart ==
    /\ i_pc = "args"
    /\ \E h \in sha256_hex(sha, i_hexstr, IdenticonDigests) :
          /\ sha' = Hashed(sha, i_hexstr, h)
          /\ i_bits' = Bits(h)
    /\ i_grid' = BlankGrid(i_size)
    /\ i_bit_idx' = 0
    /\ i_r' = 0
    /\ i_c' = 0
    /\ i_pc' = IF i_size > 0 THEN "check" ELSE "join"
    /\ UNCHANGED <<i_hexstr, i_size, i_out, norm_vars, alias_vars, entropy_vars, main_vars>>

IdentWrap ==
    /\ i_pc = "check"
    /\ i_bit_idx >= Len(i_bits)
    /\ i_bit_idx' = WrapCursor(i_bit_idx, Len(i_bits))
    /\ i_pc' = "fill"
    /\ UNCHANGED <<sha, i_hexstr, i_size, i_bits, i_grid, i_r, i_c, i_out,
                   norm_vars, alias_vars, entropy_vars, main_vars>>

IdentNoWrap ==
    /\ i_pc = "check"
    /\ i_bit_idx < Len(i_bits)
    /\ i_bit_idx' = WrapCursor(i_bit_idx, Len(i_bits))
    /\ i_pc' = "fill"
    /\ UNCHANGED <<sha, i_hexstr, i_size, i_bits, i_grid, i_r, i_c, i_out,
                   norm_vars, alias_vars, entropy_vars, main_vars>>

IdentFill ==
    /\ i_pc = "fill"
    /\ i_grid' = FillCell(i_grid, i_bits, i_bit_idx, i_r, i_c, i_size)
    /\ i_bit_idx' = i_bit_idx + 1
    /\ i_c' = IF i_c + 1 < Half(i_size) THEN i_c + 1 ELSE 0
    /\ i_r' = IF i_c + 1 < Half(i_size) THEN i_r ELSE i_r + 1
    /\ i_pc' = IF i_c + 1 < Half(i_size) \/ i_r + 1 < i_size THEN "check" ELSE "join"
    /\ UNCHANGED <<sha, i_hexstr, i_size, i_bits, i_out, norm_vars, alias_vars, entropy_vars, main_vars>>

IdentReturn ==
    /\ i_pc = "join"
    /\ i_out' = i_grid
    /\ i_pc' = "done"
    /\ UNCHANGED <<sha, i_hexstr, i_size, i_bits, i_grid, i_bit_idx, i_r, i_c,
                   norm_vars, alias_vars, entropy_vars, main_vars>>

IdentNext == IdentStart \/ IdentWrap \/ IdentNoWrap \/ IdentFill \/ IdentReturn

SpecIdenticon == IdentInit /\ [][IdentNext]_vars

(***************************************************************************)
(* entropy_score_from_hex applied to a string.                             *)
(***************************************************************************)
EntropyInit ==
    /\ e_pc = "args"
    /\ e_hexstr \in EntropyInputs
    /\ e_out = 0
    /\ sha = <<>>
    /\ NormIdle
    /\ AliasIdle
    /\ IdentIdle
    /\ MainIdle

ScoreEntropy ==
    /\ e_pc = "args"
    /\ e_out' = entropy_score_from_hex(e_hexstr)
    /\ e_pc' = "done"
    /\ UNCHANGED <<sha, e_hexstr, norm_vars, alias_vars, ident_vars, main_vars>>

EntropyNext == ScoreEntropy

SpecEntropy == EntropyInit /\ [][EntropyNext]_vars

(***************************************************************************)
(* main, invoked twice: m_run.pc is "shell" before the program starts,     *)
(* "parsed" once parse_args has returned, "normalize" once addr is set,    *)
(* "derive" once hexaddr is checked, "print" once the report is built, and *)
(* "exited" at the end.  sha is the same function in both invocations.     *)
(***************************************************************************)
MainInit ==
    /\ m_run = Shell
    /\ m_first = Shell
    /\ sha = <<>>
    /\ NormIdle
    /\ AliasIdle
    /\ IdentIdle
    /\ EntropyIdle

others == <<norm_vars, alias_vars, ident_vars, entropy_vars>>

\* args = p.parse_args()
Invoke(address, seed, format, content) ==
    /\ m_run.pc = "shell"
    /\ m_run' = [Shell EXCEPT !.pc = "parsed", !.address = address, !.seed = seed,
                              !.format = format, !.stdin = content]
    /\ UNCHANGED <<sha, m_first, others>>

\* addr = args.address, which is truthy
UseAddress ==
    /\ m_run.pc = "parsed"
    /\ ~Falsy(m_run.address)
    /\ m_run' = [m_run EXCEPT !.pc = "normalize", !.addr = m_run.address.value]
    /\ UNCHANGED <<sha, m_first, others>>

\* addr = sys.stdin.read().strip(), which is truthy
ReadStdin ==
    /\ m_run.pc = "parsed"
    /\ Falsy(m_run.address)
    /\ StdinAddress(m_run.stdin) # <<>>
    /\ m_run' = [m_run EXCEPT !.pc = "normalize", !.addr = StdinAddress(m_run.stdin)]
    /\ UNCHANGED <<sha, m_first, others>>

\* addr = sys.stdin.read().strip() is empty: the error and sys.exit(2)
NoInput ==
    /\ m_run.pc = "parsed"
    /\ Falsy(m_run.address)
    /\ StdinAddress(m_run.stdin) = <<>>
    /\ m_run' = [m_run EXCEPT !.pc = "exited", !.addr = StdinAddress(m_run.stdin),
                              !.stderr = Append(m_run.stderr, ERROR_MESSAGE),
                              !.exit = 2]
    /\ UNCHANGED <<sha, m_first, others>>

\* hexaddr = hex_normalize(addr) and the warning
Normalize ==
    /\ m_run.pc = "normalize"
    /\ LET hexaddr == hex_normalize(m_run.addr)
       IN  m_run' = [m_run EXCEPT !.pc = "derive", !.hexaddr = hexaddr,
                                 !.stderr = IF HasNonHex(hexaddr)
                                            THEN Append(m_run.stderr, WARNING_MESSAGE)
                                            ELSE m_run.stderr]
    /\ UNCHANGED <<sha, m_first, others>>

\* fingerprint, alias, identicon, entropy, short and report
Derive ==
    /\ m_run.pc = "derive"
    /\ LET in == HashInputs(m_run.hexaddr, m_run.seed)
       IN  \E h1 \in sha256_hex(sha, in.fingerprint, MainDigests) :
             LET t1 == Hashed(sha, in.fingerprint, h1)
             IN  \E h2 \in sha256_hex(t1, in.alias, MainDigests) :
                   LET t2 == Hashed(t1, in.alias, h2)
                   IN  \E h3 \in sha256_hex(t2, in.identicon, MainDigests) :
                         /\ sha' = Hashed(t2, in.identicon, h3)
                         /\ m_run' = [m_run EXCEPT
                                !.pc = "print",
                                !.report = <<Report(m_run.addr, m_run.hexaddr, h1, h2, h3)>>]
    /\ UNCHANGED <<m_first, others>>

\* the report printed as JSON or as text, and the end of main
PrintReport ==
    /\ m_run.pc = "print"
    /\ m_run' = [m_run EXCEPT !.pc = "exited",
                              !.stdout = Printed(m_run.format, m_run.report[1]),
                              !.exit = 0]
    /\ UNCHANGED <<sha, m_first, others>>

\* the program is started a second time
Again ==
    /\ m_run.pc = "exited"
    /\ m_first = Shell
    /\ m_first' = m_run
    /\ m_run' = Shell
    /\ UNCHANGED <<sha, others>>

Next ==
    \/ \E address \in MainAddresses, seed \in Seeds, format \in Formats,
          content \in MainStdin : Invoke(address, seed, format, content)
    \/ UseAddress
    \/ ReadStdin
    \/ NoInput
    \/ Normalize
    \/ Derive
    \/ PrintReport
    \/ Again

Spec == MainInit /\ [][Next]_vars

(***************************************************************************)
(* Claims about hex_normalize                                              *)
(***************************************************************************)
HexDigits == {"0","1","2","3","4","5","6","7","8","9",
              "a","b","c","d","e","f","A","B","C","D","E","F"}

AllIn(s, chars) == \A i \in 1..Len(s) : s[i] \in chars

\* C1: normalizing an already-normalized string yields the same string,
\* for every raw input.
C1_Idempotent == n_pc = "twice" => n_twice = n_once

\* C2: a raw string made of leading whitespace, an optional "0x" or "0X",
\* hex digits h in any case, and trailing whitespace normalizes to h in
\* lowercase.
C2_PrefixAndCase ==
    n_pc # "raw" =>
        \A i \in 0..Len(n_raw), j \in 0..Len(n_raw) :
            LET w1   == SubSeq(n_raw, 1, i)
                rest == SubSeq(n_raw, i + 1, j)
                w2   == SubSeq(n_raw, j + 1, Len(n_raw))
            IN  (i <= j /\ AllIn(w1, Whitespace) /\ AllIn(w2, Whitespace)) =>
                \A p \in {<<>>, <<"0","x">>, <<"0","X">>} :
                    (StartsWith(rest, p) /\ AllIn(DropFirst(rest, Len(p)), HexDigits))
                        => n_once = Lower(DropFirst(rest, Len(p)))

C2_Witness ==
    /\ n_pc = "once"
    /\ n_raw = <<" ", "0", "X", "A", " ">>
    /\ n_once = <<"a">>

(***************************************************************************)
(* Claims about make_pronounceable_alias                                   *)
(***************************************************************************)
Range(f) == {f[i] : i \in DOMAIN f}

\* C3: the alias has at most 12 characters, the first an uppercase letter,
\* every other one a lowercase letter, for every address and seed.
C3_AliasShape ==
    a_pc = "done" =>
        /\ Len(a_out) >= 1
        /\ Len(a_out) <= 12
        /\ a_out[1] \in Range(UPPER)
        /\ \A i \in 2..Len(a_out) : a_out[i] \in Range(LOWER)

C3_Witness ==
    /\ a_pc = "done"
    /\ a_hexstr = <<"z","!">>
    /\ a_seed = <<>>
    /\ a_out = <<"F","e","k","b","a","d","c","e","h","d","e","k">>

\* the digest the alias was derived from
AliasDigest == sha[AliasInput(a_hexstr, a_seed)]

\* character k (1..12) of the alias as the claim gives it, from bytes 0..3
ClaimedAliasChar(h, k) ==
    LET b  == ByteAt(h, (k - 1) \div 3)
        ch == CASE (k - 1) % 3 = 0 -> CONSONANTS[(b % 21) + 1]
                [] (k - 1) % 3 = 1 -> VOWELS[((b \div 8) % 5) + 1]
                [] (k - 1) % 3 = 2 -> CONSONANTS[((b \div 32) % 21) + 1]
    IN  IF k = 1 THEN UpperChar(ch) ELSE ch

SameFirstFourBytes(h, d) == \A i \in 0..3 : ByteAt(h, i) = ByteAt(d, i)

\* the sample digests that begin with byte 0 of h
SiblingDigests(h) == {SampleDigest(ByteAt(h, 0), t) : t \in 0..MaxTail}

C4_SquareAndSymmetric ==
    i_pc = "done" =>
        /\ Len(i_out) = i_size
        /\ \A r \in 1..i_size :
              /\ Len(i_out[r]) = i_size
              /\ \A c \in 1..i_size : i_out[r][c] = i_out[r][i_size + 1 - c]

C4_Witness ==
    /\ i_pc = "done"
    /\ i_size = 4
    /\ i_out[2] = <<FILLED, EMPTY, EMPTY, FILLED>>

\* bit k (0 = most significant) of the 256-bit number the digest h writes
DigestBit(h, k) == (HexVal(h[(k \div 4) + 1]) \div (2 ^ (3 - (k % 4)))) % 2

\* C9: the cursor starts at 0 and is (r * half + c) mod 256, within
\* 0..255, whenever a bit is read; cell (r, c) of the left half is filled
\* iff that bit of the digest is 1; for size <= 7 the cursor stays within
\* 28 and never reaches 256.
C9_BitCursor ==
    LET half == Half(i_size)
        h    == sha[i_hexstr]
    IN  /\ (i_pc = "check" /\ i_r = 0 /\ i_c = 0) => i_bit_idx = 0
        /\ i_pc = "fill" =>
              /\ i_bit_idx \in 0..255
              /\ i_bit_idx = (i_r * half + i_c) % 256
        /\ i_pc = "check" =>
              i_bit_idx = IF i_r * half + i_c = 0 THEN 0
                          ELSE ((i_r * half + i_c - 1) % 256) + 1
        /\ i_pc = "done" =>
              \A r \in 0..(i_size - 1), c \in 0..(half - 1) :
                  i_out[r + 1][c + 1] = FILLED <=> DigestBit(h, (r * half + c) % 256) = 1
        /\ (i_pc \in {"check", "fill", "join", "done"} /\ i_size <= 7) =>
              i_bit_idx <= 28 /\ i_bit_idx < 256

C9_Witness ==
    /\ i_pc = "fill"
    /\ i_size = 23
    /\ i_r = 21 /\ i_c = 5
    /\ i_bit_idx = 1

(***************************************************************************)
(* Claims about entropy_score_from_hex                                     *)
(***************************************************************************)
\* how often ch occurs in s
Occurrences(s, ch) == Cardinality({i \in 1..Len(s) : s[i] = ch})

\* every character of s occurs equally often
EquallyFrequent(s) ==
    \A i \in 1..Len(s) : Occurrences(s, s[i]) = Occurrences(s, s[1])

\* C5: the score is within [0, 100]; it is 0.0 for the empty string and
\* for a single repeated character; it is 100 whenever the raw entropy is
\* at least 4 bits, as with the 16 hex nibbles equally represented or with
\* more than 16 equally frequent distinct characters.
C5_ScoreBounds ==
    e_pc = "done" =>
        /\ e_out >= 0
        /\ e_out <= 1000
        /\ (\A i \in 1..Len(e_hexstr) : e_hexstr[i] = e_hexstr[1]) => e_out = 0
        /\ Entropy(Counter(Lower(e_hexstr))) >= 4 * MICRO => e_out = 1000
        /\ ( /\ Range(e_hexstr) = Range(HEXDIGITS)
             /\ EquallyFrequent(e_hexstr) ) => e_out = 1000
        /\ ( /\ Cardinality(Range(Lower(e_hexstr))) > 16
             /\ EquallyFrequent(Lower(e_hexstr)) ) => e_out = 1000

C5_Witness ==
    /\ e_pc = "done"
    /\ e_hexstr = Uniform(17, 1)
    /\ e_out = 1000

(***************************************************************************)
(* Claims about main                                                       *)
(***************************************************************************)
\* the invocation ended with a report
Reported(run) == run.pc = "exited" /\ run.exit = 0

SameDerivedFields(a, b) ==
    /\ a.normalized = b.normalized
    /\ a.fingerprint = b.fingerprint
    /\ a.short_id = b.short_id
    /\ a.alias = b.alias
    /\ a.entropy_score = b.entropy_score
    /\ a.identicon_lines = b.identicon_lines

\* the fingerprint and the identicon come from the digest of the normalized
\* address alone, the alias from the digest of normalized + "|" + seed
DigestsUsed(run) ==
    LET r == run.report[1]
    IN  /\ r.fingerprint = sha[r.normalized]
        /\ r.identicon_lines = IdenticonOfDigest(sha[r.normalized], 7)
        /\ r.alias = AliasOfDigest(sha[r.normalized \o <<"|">> \o run.seed])

\* C6: two invocations on the same address agree on the normalized
\* address, fingerprint, short id, entropy score and identicon whatever
\* their seeds; only the alias digest covers the seed.
C6_SeedNonInterference ==
    (Reported(m_first) /\ Reported(m_run) /\ m_first.addr = m_run.addr) =>
        LET a == m_first.report[1]
            b == m_run.report[1]
        IN  /\ a.normalized = b.normalized
            /\ a.fingerprint = b.fingerprint
            /\ a.short_id = b.short_id
            /\ a.entropy_score = b.entropy_score
            /\ a.identicon_lines = b.identicon_lines
            /\ DigestsUsed(m_first)
            /\ DigestsUsed(m_run)

C6_Witness ==
    /\ Reported(m_first) /\ Reported(m_run)
    /\ m_first.addr = <<"0","x","A","B","1","2">>
    /\ m_run.addr = m_first.addr
    /\ m_first.seed = <<>> /\ m_run.seed = <<"x">>
    /\ m_first.report[1].alias # m_run.report[1].alias
    /\ m_first.report[1].fingerprint = m_run.report[1].fingerprint

\* C7: two invocations with the same address and seed give the same
\* report; two whose addresses normalize to the same string, with the same
\* seed, give the same derived fields; short_id is the first 8 characters
\* of fingerprint.
C7_FunctionOfNormalizedAndSeed ==
    /\ (Reported(m_first) /\ Reported(m_run) /\ m_first.seed = m_run.seed) =>
          /\ m_first.addr = m_run.addr => m_first.report = m_run.report
          /\ hex_normalize(m_first.addr) = hex_normalize(m_run.addr) =>
                SameDerivedFields(m_first.report[1], m_run.report[1])
    /\ Reported(m_run) =>
          /\ Len(m_run.report[1].short_id) = 8
          /\ m_run.report[1].short_id = SubSeq(m_run.report[1].fingerprint, 1, 8)

C7_Witness ==
    /\ Reported(m_first) /\ Reported(m_run)
    /\ m_first.addr = <<"0","x","A","B","1","2">>
    /\ m_run.addr = <<" ","a","b","1","2"," ">>
    /\ m_first.seed = <<"x">> /\ m_run.seed = <<"x">>
    /\ m_run.report[1].normalized = <<"a","b","1","2">>
    /\ SameDerivedFields(m_first.report[1], m_run.report[1])

\* no positional address was given, or an empty one
NoPositional(run) == ~run.address.present \/ run.address.value = <<>>

\* An invocation that ended failed (the error, status 2, no report) if
\* no_input, and otherwise printed a complete report, with the warning iff
\* the normalized address has a non-hex character and the same fields
\* with or without it.
FailsOnlyIf(no_input) ==
    m_run.pc = "exited" =>
        /\ no_input =>
              /\ m_run.exit = 2
              /\ m_run.stderr = <<ERROR_MESSAGE>>
              /\ m_run.report = <<>>
              /\ m_run.stdout = <<>>
        /\ ~no_input =>
              LET hexaddr == hex_normalize(m_run.addr)
              IN  /\ m_run.exit = 0
                  /\ m_run.addr = IF NoPositional(m_run) THEN Strip(m_run.stdin)
                                  ELSE m_run.address.value
                  /\ m_run.report =
                        <<[input           |-> m_run.addr,
                           normalized      |-> hexaddr,
                           fingerprint     |-> sha[hexaddr],
                           short_id        |-> SubSeq(sha[hexaddr], 1, 8),
                           alias           |-> AliasOfDigest(sha[AliasInput(hexaddr, m_run.seed)]),
                           entropy_score   |-> entropy_score_from_hex(hexaddr),
                           identicon_lines |-> IdenticonOfDigest(sha[hexaddr], 7)]>>
                  /\ m_run.stdout # <<>>
                  /\ m_run.stderr = IF AllIn(hexaddr, Range(HEXDIGITS))
                                    THEN <<>> ELSE <<WARNING_MESSAGE>>

====
